---- MODULE Spec2Model ----
(***************************************************************************)
(* Ingestion and reconciliation pipeline of finance-control:               *)
(*   services/expenses_service.py  add_multiple_expenses_to_db,            *)
(*                                 process_text_input, process_uploaded_file*)
(*   utils/openai_agent.py         determine_sign_convention,              *)
(*                                 process_text_with_agent                 *)
(*   models/expense.py             Expense                                 *)
(* The MongoDB collection is the only state shared between requests.       *)
(***************************************************************************)
EXTENDS Integers, Sequences, FiniteSets, TLC

(***************************************************************************)
(* Bounds of the model.                                                    *)
(***************************************************************************)
\* longest batch (expenses_data) handed to one call
MaxBatch == 2
\* number of documents the collection may hold before the modelled request
MaxInitStore == 1
\* longest batch of each of the two overlapping requests of SpecTwo
MaxBatchTwo == 1

(***************************************************************************)
(* Python values of a candidate mapping.  Strings are tuples of            *)
(* one-character strings, so that parsing and slicing are computed.        *)
(***************************************************************************)
PyNone == [t |-> "none"]
PyNum(n) == [t |-> "num", n |-> n]
PyStr(s) == [t |-> "str", s |-> s]
PyDate(y, m, d) == [t |-> "date", y |-> y, m |-> m, d |-> d]
\* a value of a type none of the branches expects (a list)
PyList == [t |-> "list"]

\* dict.get(key) with the default None
Get(dict, key) == IF key \in DOMAIN dict THEN dict[key] ELSE PyNone

\* dict[key] = value
Put(dict, key, value) ==
  [k \in DOMAIN dict \cup {key} |-> IF k = key THEN value ELSE dict[k]]

Min(a, b) == IF a <= b THEN a ELSE b

(***************************************************************************)
(* float values: finite ones are integers here, plus nan and +-inf.        *)
(***************************************************************************)
Fin(n) == [k |-> "fin", n |-> n]
NaN == [k |-> "nan", n |-> 0]
Inf(sign) == [k |-> "inf", n |-> sign]

\* x >= 0 on floats (every comparison with nan is False)
GeZero(x) == x.k # "nan" /\ x.n >= 0

\* x < 0 on floats
LtZero(x) == x.k # "nan" /\ x.n < 0

\* x * -1 on floats
Negate(x) == [k |-> x.k, n |-> 0 - x.n]

Digits == <<"0", "1", "2", "3", "4", "5", "6", "7", "8", "9">>

IsDigit(c) == \E i \in 1..10 : Digits[i] = c

DigitVal(c) == (CHOOSE i \in 1..10 : Digits[i] = c) - 1

IsSpace(c) == c = " "

AllDigits(s) == \A i \in 1..Len(s) : IsDigit(s[i])

RECURSIVE Decimal(_)
\* the number a non-empty string of digits denotes
Decimal(s) ==
  IF Len(s) = 0 THEN 0
  ELSE 10 * Decimal(SubSeq(s, 1, Len(s) - 1)) + DigitVal(s[Len(s)])

RECURSIVE LStrip(_)
LStrip(s) == IF Len(s) > 0 /\ IsSpace(s[1]) THEN LStrip(Tail(s)) ELSE s

RECURSIVE RStrip(_)
RStrip(s) ==
  IF Len(s) > 0 /\ IsSpace(s[Len(s)]) THEN RStrip(SubSeq(s, 1, Len(s) - 1)) ELSE s

\* str.strip()
Strip(s) == RStrip(LStrip(s))

\* `not text or not text.strip()`
IsBlank(text) == Len(text) = 0 \/ Len(Strip(text)) = 0

\* float(str): optional sign, then decimal digits, "nan" or "inf", around
\* optional blanks; anything else is a ValueError.  (Fractions and exponents
\* are outside the strings of this model.)
FloatOfStr(s) ==
  LET b == Strip(s)
      neg == Len(b) > 0 /\ b[1] = "-"
      signed == Len(b) > 0 /\ b[1] \in {"-", "+"}
      u == IF signed THEN Tail(b) ELSE b
  IN  IF Len(u) > 0 /\ AllDigits(u)
        THEN [ok |-> TRUE, val |-> Fin(IF neg THEN 0 - Decimal(u) ELSE Decimal(u))]
      ELSE IF u = <<"n", "a", "n">> THEN [ok |-> TRUE, val |-> NaN]
      ELSE IF u = <<"i", "n", "f">>
        THEN [ok |-> TRUE, val |-> Inf(IF neg THEN 0 - 1 ELSE 1)]
      ELSE [ok |-> FALSE, val |-> NaN]

\* float(value_input) with `except (ValueError, TypeError)`
ToFloat(v) ==
  CASE v.t = "num" -> [ok |-> TRUE, val |-> Fin(v.n)]
    [] v.t = "str" -> FloatOfStr(v.s)
    [] OTHER -> [ok |-> FALSE, val |-> NaN]

(***************************************************************************)
(* datetime.strptime(date_input, '%Y-%m-%d').date()                        *)
(***************************************************************************)
IsLeap(y) == (y % 4 = 0 /\ y % 100 # 0) \/ y % 400 = 0

DaysInMonth(y, m) ==
  IF m = 2 THEN (IF IsLeap(y) THEN 29 ELSE 28)
  ELSE IF m \in {4, 6, 9, 11} THEN 30 ELSE 31

\* %m : 1[0-2] | 0[1-9] | [1-9]
MonthField(f) ==
  /\ Len(f) \in {1, 2}
  /\ AllDigits(f)
  /\ Decimal(f) \in 1..12

\* %d : 3[01] | [12]\d | 0[1-9] | [1-9] | " "[1-9]
DayField(f) ==
  \/ Len(f) \in {1, 2} /\ AllDigits(f) /\ Decimal(f) \in 1..31
  \/ Len(f) = 2 /\ f[1] = " " /\ IsDigit(f[2]) /\ f[2] # "0"

DayVal(f) == IF f[1] = " " THEN DigitVal(f[2]) ELSE Decimal(f)

NoDate == [ok |-> FALSE, y |-> 0, m |-> 0, d |-> 0]

\* the whole string must match \d\d\d\d-<month>-<day> and name a calendar
\* date of year >= 1; otherwise ValueError
strptime(s) ==
  LET n == Len(s)
      head == n >= 8 /\ AllDigits(SubSeq(s, 1, 4)) /\ s[5] = "-"
      mlen == IF s[7] = "-" THEN 1 ELSE 2
      mf == SubSeq(s, 6, 5 + mlen)
      df == SubSeq(s, 7 + mlen, n)
  IN  IF ~head THEN NoDate
      ELSE IF ~(s[6 + mlen] = "-" /\ MonthField(mf) /\ DayField(df)) THEN NoDate
      ELSE LET y == Decimal(SubSeq(s, 1, 4))
               m == Decimal(mf)
               d == DayVal(df)
           IN  IF y >= 1 /\ d <= DaysInMonth(y, m)
                 THEN [ok |-> TRUE, y |-> y, m |-> m, d |-> d]
                 ELSE NoDate

Pad(n, width) ==
  [i \in 1..width |-> Digits[((n \div (10 ^ (width - i))) % 10) + 1]]

\* date.isoformat(), the form of `date` in model_dump(mode='json')
isoformat(dt) == Pad(dt.y, 4) \o <<"-">> \o Pad(dt.m, 2) \o <<"-">> \o Pad(dt.d, 2)

(***************************************************************************)
(* models/expense.py: Expense, and the documents made of it.               *)
(***************************************************************************)
TagIn == <<"i", "n">>
TagOut == <<"o", "u", "t">>

\* a float held in the candidate mapping after `expense_data['value'] = float(...)`
PyFloat(x) == [t |-> "float", v |-> x]

\* Expense(**expense_data) raises ValidationError unless every required
\* field is present with its declared type (id is Optional and was removed)
ExpenseValid(dict) ==
  /\ {"date", "description", "value", "in_out"} \subseteq DOMAIN dict
  /\ dict.date.t = "date"
  /\ dict.description.t = "str"
  /\ dict.value.t = "float"
  /\ dict.in_out \in {PyStr(TagIn), PyStr(TagOut)}

\* the validated model
Expense(dict) ==
  [date |-> [y |-> dict.date.y, m |-> dict.date.m, d |-> dict.date.d],
   description |-> dict.description.s,
   value |-> dict.value.v,
   in_out |-> dict.in_out.s]

\* 'in' if value >= 0 else 'out'
SignTag(x) == IF GeZero(x) THEN TagIn ELSE TagOut

\* expense_model.value *= -1 with the direction tag left as it was
InvertModelKeepingTag(model) ==
  [model EXCEPT !.value = Negate(model.value)]

\* expense_model.value *= -1 ; in_out re-derived
InvertModel(model) ==
  [model EXCEPT !.value = Negate(model.value),
                !.in_out = SignTag(Negate(model.value))]

\* model_dump(exclude_none=True) with date turned into a datetime at
\* midnight, as the collection stores it under the identity _id
DbDoc(model, oid) ==
  [_id |-> oid, date |-> model.date, description |-> model.description,
   value |-> model.value, in_out |-> model.in_out]

\* model_dump(mode='json'): id is None, date is an ISO string
JsonDump(model) ==
  [id |-> PyNone, date |-> isoformat(model.date),
   description |-> model.description, value |-> model.value,
   in_out |-> model.in_out]

(***************************************************************************)
(* The collection: find_one with the duplicate filter.                     *)
(***************************************************************************)
\* equality of a filter value with a stored float: a number matches by
\* numeric value; None, a string or an array never equals a stored number
ValueMatches(raw, stored) == raw.t = "num" /\ stored = Fin(raw.n)

\* equality of a filter value with a stored string
TextMatches(raw, stored) == raw.t = "str" /\ raw.s = stored

\* a collection.find_one that never finds a document
find_one_nothing(st, filter) == FALSE

\* await collection.find_one(duplicate_check_filter), as a truth value
find_one(st, filter) ==
  \E i \in 1..Len(st) :
    /\ st[i].date = filter.date
    /\ TextMatches(filter.description, st[i].description)
    /\ ValueMatches(filter.value, st[i].value)

(***************************************************************************)
(* One iteration of the loop of add_multiple_expenses_to_db.               *)
(***************************************************************************)
\* expense_data.get('description', '')[:20]
DescLimit == 20

DescOf(dict) ==
  IF "description" \in DOMAIN dict THEN dict.description ELSE PyStr(<<>>)

\* subscripting None, a number or a date raises TypeError
CanSlice(dict) == DescOf(dict).t \in {"str", "list"}

DescSlice(dict) ==
  LET v == DescOf(dict)
  IN  IF v.t = "str" THEN SubSeq(v.s, 1, Min(Len(v.s), DescLimit)) ELSE <<>>

\* f"Item #{item_index} ({description[:20]}...): {reason}"
ErrorEntry(item_index, dict, reason) ==
  [item |-> item_index, desc |-> DescSlice(dict), reason |-> reason]

\* errors.append(...) of a rejection.  Building the message subscripts the
\* description: a TypeError raised there reaches `except Exception`, whose
\* own message subscripts it again, and that TypeError leaves the function.
Reject(item_index, dict, reason, finds) ==
  IF CanSlice(dict)
    THEN [kind |-> "error", entry |-> ErrorEntry(item_index, dict, reason),
          finds |-> finds, failed |-> 0]
    ELSE [kind |-> "raise", exc |-> "TypeError", finds |-> finds, failed |-> 0]

\* the date the candidate's date field parses to
ParseDate(date_input) ==
  CASE date_input.t = "str" -> strptime(date_input.s)
    [] date_input.t = "date" ->
         [ok |-> TRUE, y |-> date_input.y, m |-> date_input.m, d |-> date_input.d]
    [] OTHER -> NoDate

\* a duplicate filter on date and value that asks for no description
DuplicateFilterNoDescription(dict) ==
  [date |-> [y |-> dict.date.y, m |-> dict.date.m, d |-> dict.date.d],
   description |-> PyNone,
   value |-> Get(dict, "value")]

\* duplicate_check_filter: the parsed date, and description and value as
\* the candidate holds them at that point (value not yet converted)
DuplicateFilter(dict) ==
  [date |-> [y |-> dict.date.y, m |-> dict.date.m, d |-> dict.date.d],
   description |-> Get(dict, "description"),
   value |-> Get(dict, "value")]

\* the duplicate check made whatever save_at_front says
ChecksDuplicatesAlways(save_at_front) == TRUE

\* `if not save_at_front:` guards the duplicate check
ChecksDuplicates(save_at_front) == ~save_at_front

\* an in_out always derived from the sign, whatever tag the candidate has
ResolveTagFromSign(dict) ==
  Put(dict, "in_out", PyStr(SignTag(dict.value.v)))

\* the in_out the candidate carries into validation
ResolveTag(dict) ==
  IF "in_out" \notin DOMAIN dict \/ dict.in_out \notin {PyStr(TagIn), PyStr(TagOut)}
    THEN Put(dict, "in_out", PyStr(SignTag(dict.value.v)))
    ELSE dict

\* the validated model taken as it is, whatever invert_signs says
ApplyInversionNever(model, invert_signs) == model

\* `if invert_signs:` applied to the validated model
ApplyInversion(model, invert_signs) ==
  IF invert_signs THEN InvertModel(model) ELSE model

\* lines 63-139 for one candidate: what the iteration does to the batch's
\* accounting.  find_raises: the find_one call, if made, raises.
ProcessCandidate(item_index, expense_data, save_at_front, invert_signs, st, find_raises) ==
  LET date_input == Get(expense_data, "date")
      parsed == ParseDate(date_input)
      d1 == Put(expense_data, "date", PyDate(parsed.y, parsed.m, parsed.d))
      fl == ToFloat(Get(d1, "value"))
      d2 == Put(d1, "value", PyFloat(fl.val))
      d3 == ResolveTag(d2)
      check == ChecksDuplicates(save_at_front)
      finds == IF check THEN 1 ELSE 0
  IN  IF date_input.t = "str" /\ ~parsed.ok
        THEN Reject(item_index, expense_data, "Invalid date format.", 0)
      ELSE IF date_input.t \notin {"str", "date", "none"}
        THEN Reject(item_index, expense_data, "Invalid date type.", 0)
      ELSE IF ~parsed.ok
        THEN Reject(item_index, expense_data, "Missing or unparseable date.", 0)
      ELSE IF check /\ find_raises
        THEN [Reject(item_index, d1, "Unexpected processing error.", finds)
                EXCEPT !.failed = 1]
      ELSE IF check /\ find_one(st, DuplicateFilter(d1))
        THEN [kind |-> "duplicate",
              info |-> [date |-> d1.date, desc |-> DescSlice(d1)],
              finds |-> finds, failed |-> 0]
      ELSE IF ~fl.ok
        THEN Reject(item_index, d1, "Invalid or missing value.", finds)
      ELSE IF ~ExpenseValid(d3)
        THEN Reject(item_index, d3, "Validation error", finds)
      ELSE [kind |-> "accepted",
            model |-> ApplyInversion(Expense(d3), invert_signs),
            finds |-> finds, failed |-> 0]

(***************************************************************************)
(* Inputs of the model.                                                    *)
(***************************************************************************)
GoodDate == <<"2", "0", "2", "4", "-", "0", "1", "-", "0", "5">>
LooseDate == <<"2", "0", "2", "4", "-", "1", "-", "5">>
BadDate == <<"b", "a", "d", "-", "d", "a", "t", "e">>
Coffee == <<"C", "o", "f", "f", "e", "e">>
DescX == <<"X">>
Bogus == <<"b", "o", "t", "h">>

\* a candidate mapping with all four keys
Cand(date, description, value, in_out) ==
  [date |-> date, description |-> description, value |-> value, in_out |-> in_out]

\* the mapping without one key
Without(dict, key) == [k \in DOMAIN dict \ {key} |-> dict[k]]

\* the same mapping without the in_out key
Untagged(date, description, value) ==
  Without(Cand(date, description, value, PyNone), "in_out")

\* well-formed date and description; the direction tag absent, agreeing
\* with the sign, contradicting it, or not a tag at all
TaggedCandidates ==
  {Untagged(PyStr(GoodDate), PyStr(Coffee), PyNum(5)),
   Cand(PyStr(GoodDate), PyStr(Coffee), PyNum(5), PyStr(TagIn)),
   Cand(PyStr(GoodDate), PyStr(Coffee), PyNum(0 - 5), PyStr(TagIn)),
   Cand(PyStr(GoodDate), PyStr(Coffee), PyNum(0), PyStr(Bogus))}

\* one candidate per way the date field can be given
DateCandidates ==
  {Untagged(d, PyStr(DescX), PyNum(1)) :
     d \in {PyStr(LooseDate), PyStr(BadDate), PyNum(20240105), PyDate(2024, 1, 5)}}
  \cup {Without(Untagged(PyNone, PyStr(DescX), PyNum(1)), "date")}

\* one candidate per way the value field can be given
ValueCandidates ==
  {Untagged(PyStr(GoodDate), PyStr(Coffee), v) :
     v \in {PyList, PyStr(<<"a", "b", "c">>), PyStr(<<"5">>), PyStr(<<"n", "a", "n">>)}}
  \cup {Without(Untagged(PyStr(GoodDate), PyStr(Coffee), PyNone), "value")}

\* candidates whose description is None or absent
DescCandidates ==
  {Untagged(PyStr(GoodDate), PyNone, PyNum(5)),
   Untagged(PyStr(BadDate), PyNone, PyNum(5)),
   Without(Untagged(PyStr(GoodDate), PyNone, PyNum(5)), "description")}

Candidates ==
  TaggedCandidates \cup DateCandidates \cup ValueCandidates \cup DescCandidates

Batches == UNION {[1..n -> Candidates] : n \in 0..MaxBatch}

\* the records an earlier ingestion (of the first tagged and then the first
\* dated candidate, signs kept) has left in the collection, in that order
StoredModels ==
  <<ProcessCandidate(0, Untagged(PyStr(GoodDate), PyStr(Coffee), PyNum(5)),
                     TRUE, FALSE, <<>>, FALSE).model,
    ProcessCandidate(0, Untagged(PyStr(LooseDate), PyStr(DescX), PyNum(1)),
                     TRUE, FALSE, <<>>, FALSE).model>>

\* the collection before the call: empty, or holding the first records
InitStores ==
  {[i \in 1..n |-> DbDoc(StoredModels[i], i)] :
     n \in 0..Min(MaxInitStore, Len(StoredModels))}

\* what ExpenseItem.model_dump() can hold: date a string or None,
\* description a string, value a float, in_out a valid tag
AgentCandidates ==
  {Cand(PyStr(GoodDate), PyStr(Coffee), PyNum(5), PyStr(TagIn)),
   Cand(PyStr(GoodDate), PyStr(Coffee), PyNum(0 - 5), PyStr(TagIn)),
   Cand(PyStr(BadDate), PyStr(DescX), PyNum(1), PyStr(TagIn)),
   Cand(PyNone, PyStr(DescX), PyNum(1), PyStr(TagOut))}

AgentBatches == UNION {[1..n -> AgentCandidates] : n \in 0..MaxBatch}

\* candidates of the two overlapping requests
CandidatesTwo ==
  {Without(Cand(PyStr(GoodDate), PyStr(Coffee), PyNum(v), PyNone), "in_out") :
     v \in {5, 0 - 5}}

BatchesTwo == UNION {[1..n -> CandidatesTwo] : n \in 0..MaxBatchTwo}

Reqs == {"r1", "r2"}

(***************************************************************************)
(* State: the collection, and one record per request with the locals of    *)
(* the call it runs.  The last fields are history: the identities the      *)
(* collection stored for the call, the collection when the call began, the *)
(* requests that had ended by then, the item_index of each accepted        *)
(* model, the failures of the collection, and what the agents answered.    *)
(***************************************************************************)
VARIABLES store, call

vars == <<store, call>>

NoResult == [none |-> TRUE]

NoRun == [kind |-> "none"]

Idle ==
  [pc |-> "idle", entry |-> "none", text |-> <<>>,
   save_at_front |-> FALSE, invert_signs |-> FALSE,
   expenses_data |-> <<>>, item_index |-> 0,
   errors |-> <<>>, valid_expense_models |-> <<>>,
   skipped_count |-> 0, skipped_duplicates_info |-> <<>>,
   added_count |-> 0, inserted_ids |-> <<>>,
   result |-> NoResult, exc |-> "none",
   find_calls |-> 0, insert_calls |-> 0, sign_calls |-> 0, extract_calls |-> 0,
   written |-> <<>>, store_at_call |-> <<>>, after |-> {},
   accepted_items |-> <<>>, find_failed |-> 0, insert_failed |-> FALSE,
   sign_run |-> NoRun, extract_run |-> NoRun,
   http |-> 0, route_exc |-> "none"]

Ended(c) == c.pc \in {"done", "raised"}

\* an exception leaving add_multiple_expenses_to_db, seen through the
\* except clauses of the entry point that called it
Propagated(entry, exc) ==
  CASE entry = "text" -> "ConnectionError"
    [] entry = "file" -> IF exc = "ValueError" THEN "ValueError" ELSE "ConnectionError"
    [] OTHER -> exc

Raise(c, exc) == [c EXCEPT !.pc = "raised", !.exc = Propagated(c.entry, exc)]

\* add_multiple_expenses_to_db(collection, expenses_data, invert_signs, save_at_front)
EnterAdd(c, expenses_data, invert_signs, save_at_front) ==
  [c EXCEPT !.pc = "add", !.expenses_data = expenses_data,
            !.invert_signs = invert_signs, !.save_at_front = save_at_front]

\* a request calls add_multiple_expenses_to_db itself
CallAddMultiple(r, batches) ==
  /\ call[r].pc = "idle"
  /\ \E expenses_data \in batches, invert_signs \in BOOLEAN, save_at_front \in BOOLEAN :
       call' = [call EXCEPT ![r] =
                  EnterAdd([Idle EXCEPT !.entry = "direct",
                                        !.store_at_call = store,
                                        !.after = {q \in Reqs : Ended(call[q])}],
                           expenses_data, invert_signs, save_at_front)]
  /\ UNCHANGED store

\* `if not expenses_data:` the early return
EmptyBatchResult ==
  [status |-> "no_data", added_count |-> 0, skipped_count |-> 0, errors |-> <<>>,
   duplicates_info |-> <<>>, inserted_ids |-> <<>>, processed_expenses |-> <<>>]

ReturnNoData(r) ==
  /\ call[r].pc = "add"
  /\ call[r].expenses_data = <<>>
  /\ call' = [call EXCEPT ![r].pc = "done", ![r].result = EmptyBatchResult]
  /\ UNCHANGED store

\* the accounting after one iteration with outcome o
AfterItem(c, o) ==
  LET n == [c EXCEPT !.item_index = c.item_index + 1,
                     !.find_calls = c.find_calls + o.finds,
                     !.find_failed = c.find_failed + o.failed]
  IN  CASE o.kind = "error" -> [n EXCEPT !.errors = Append(c.errors, o.entry)]
        [] o.kind = "duplicate" ->
             [n EXCEPT !.skipped_count = c.skipped_count + 1,
                       !.skipped_duplicates_info =
                          Append(c.skipped_duplicates_info, o.info)]
        [] o.kind = "accepted" ->
             [n EXCEPT !.valid_expense_models =
                          Append(c.valid_expense_models, o.model),
                       !.accepted_items = Append(c.accepted_items, c.item_index)]
        [] OTHER -> Raise(n, o.exc)

\* one iteration of `for item_index, expense_data in enumerate(expenses_data)`
LoopItem(r) ==
  /\ call[r].pc = "add"
  /\ call[r].item_index < Len(call[r].expenses_data)
  /\ \E find_raises \in BOOLEAN :
       call' = [call EXCEPT ![r] =
                  AfterItem(call[r],
                            ProcessCandidate(call[r].item_index,
                                             call[r].expenses_data[call[r].item_index + 1],
                                             call[r].save_at_front,
                                             call[r].invert_signs,
                                             store, find_raises))]
  /\ UNCHANGED store

\* lines 173-180
FinalStatus(errors, added_count, save_at_front, valid_expense_models) ==
  IF errors = <<>> /\ (added_count > 0 \/ save_at_front) THEN "success"
  ELSE IF errors # <<>>
          /\ (added_count > 0 \/ (save_at_front /\ valid_expense_models # <<>>))
    THEN "partial_success"
  ELSE IF valid_expense_models = <<>> /\ errors = <<>> THEN "no_data"
  ELSE "error"

\* the dictionary returned at lines 190-199
BatchResult(c) ==
  [status |-> FinalStatus(c.errors, c.added_count, c.save_at_front,
                          c.valid_expense_models),
   added_count |-> c.added_count,
   processed_count |-> Len(c.valid_expense_models),
   skipped_count |-> c.skipped_count,
   errors |-> c.errors,
   duplicates_info |-> c.skipped_duplicates_info,
   inserted_ids |-> c.inserted_ids,
   processed_expenses |->
     [i \in 1..Len(c.valid_expense_models) |-> JsonDump(c.valid_expense_models[i])]]

Return(c) == [c EXCEPT !.pc = "done", !.result = BatchResult(c)]

LoopDone(c) ==
  /\ c.pc = "add"
  /\ c.expenses_data # <<>>
  /\ c.item_index = Len(c.expenses_data)

\* `if not save_at_front and valid_expense_models:`
Inserts(c) == ~c.save_at_front /\ c.valid_expense_models # <<>>

MaxOid(st) ==
  IF st = <<>> THEN 0
  ELSE CHOOSE m \in {st[i]._id : i \in 1..Len(st)} :
         \A i \in 1..Len(st) : st[i]._id <= m

\* valid_expenses_for_db, each document under the fresh identity the driver
\* gives it before sending
DocsForDb(c, st) ==
  [i \in 1..Len(c.valid_expense_models) |->
     DbDoc(c.valid_expense_models[i], MaxOid(st) + i)]

RECURSIVE Pick(_, _, _)
\* the documents of docs whose index is in keep, from index i on, in order
Pick(docs, keep, i) ==
  IF i > Len(docs) THEN <<>>
  ELSE (IF i \in keep THEN <<docs[i]>> ELSE <<>>) \o Pick(docs, keep, i + 1)

Oids(docs) == [i \in 1..Len(docs) |-> docs[i]._id]

\* result.inserted_ids of a call that returned: one identity per document
InsertedIds(docs) == Oids(docs)

\* insert_many(valid_expenses_for_db, ordered=False) returns: every document
\* is stored; then status and return
InsertReturns(r) ==
  /\ LoopDone(call[r])
  /\ Inserts(call[r])
  /\ LET docs == DocsForDb(call[r], store)
     IN  /\ store' = store \o docs
         /\ call' = [call EXCEPT ![r] =
                       Return([call[r] EXCEPT
                                 !.added_count = Len(InsertedIds(docs)),
                                 !.inserted_ids = InsertedIds(docs),
                                 !.insert_calls = call[r].insert_calls + 1,
                                 !.written = Oids(docs)])]

\* the bulk error entry
BulkError == [item |-> 0 - 1, desc |-> <<>>, reason |-> "Database error during bulk insert"]

\* an `except Exception` of the insert that records nothing
AfterInsertErrorSilent(c) ==
  [c EXCEPT !.added_count = 0]

\* what `except Exception` of the insert leaves in the locals
AfterInsertError(c) ==
  [c EXCEPT !.errors = Append(c.errors, BulkError), !.added_count = 0]

\* insert_many raises (a connection error, or a BulkWriteError after an
\* unordered write): the collection has stored any part of the documents
InsertRaises(r) ==
  /\ LoopDone(call[r])
  /\ Inserts(call[r])
  /\ LET docs == DocsForDb(call[r], store)
     IN  \E keep \in SUBSET (1..Len(docs)) :
           /\ store' = store \o Pick(docs, keep, 1)
           /\ call' = [call EXCEPT ![r] =
                         Return([AfterInsertError(call[r]) EXCEPT
                                   !.insert_calls = call[r].insert_calls + 1,
                                   !.insert_failed = TRUE,
                                   !.written = Oids(Pick(docs, keep, 1))])]

\* no insertion: save_at_front, or nothing valid
SkipInsert(r) ==
  /\ LoopDone(call[r])
  /\ ~Inserts(call[r])
  /\ call' = [call EXCEPT ![r] = Return([call[r] EXCEPT !.added_count = 0])]
  /\ UNCHANGED store

AddMultiple(r) ==
  \/ ReturnNoData(r)
  \/ LoopItem(r)
  \/ InsertReturns(r)
  \/ InsertRaises(r)
  \/ SkipInsert(r)

(***************************************************************************)
(* utils/openai_agent.py: the two agent calls.  What Runner.run does is    *)
(* the environment's choice: it raises, or it returns a final_output that  *)
(* is of the declared output type or is not.                               *)
(***************************************************************************)
RunRaises == [kind |-> "raise"]
RunMalformed == [kind |-> "output", typed |-> FALSE]
RunSign(invert) == [kind |-> "output", typed |-> TRUE, invert_signs |-> invert]
RunList(transactions) == [kind |-> "output", typed |-> TRUE, transactions |-> transactions]

SignRuns == {RunRaises, RunMalformed, RunSign(TRUE), RunSign(FALSE)}

ExtractRuns == {RunRaises, RunMalformed} \cup {RunList(b) : b \in AgentBatches}

\* a sign inference that lets the agent's exception out and trusts any output
determine_sign_convention_unsafe(text_content, run) ==
  IF IsBlank(text_content) THEN [raised |-> FALSE, value |-> FALSE]
  ELSE IF run.kind = "raise" THEN [raised |-> TRUE, value |-> FALSE]
  ELSE IF run.typed THEN [raised |-> FALSE, value |-> run.invert_signs]
  ELSE [raised |-> FALSE, value |-> TRUE]

\* determine_sign_convention(text_content), run being the agent's answer
\* when the agent is asked
determine_sign_convention(text_content, run) ==
  IF IsBlank(text_content) THEN [raised |-> FALSE, value |-> FALSE]
  ELSE IF run.kind = "raise" THEN [raised |-> FALSE, value |-> FALSE]
  ELSE IF run.typed THEN [raised |-> FALSE, value |-> run.invert_signs]
  ELSE [raised |-> FALSE, value |-> FALSE]

\* process_text_with_agent(text_content): the list returned, or the
\* ConnectionError raised
process_text_with_agent(text_content, run) ==
  IF IsBlank(text_content) THEN [raised |-> FALSE, list |-> <<>>]
  ELSE IF run.kind = "raise" THEN [raised |-> TRUE, list |-> <<>>]
  ELSE IF run.typed THEN [raised |-> FALSE, list |-> run.transactions]
  ELSE [raised |-> FALSE, list |-> <<>>]

\* whether the call reaches Runner.run
AsksAgent(text_content) == ~IsBlank(text_content)

(***************************************************************************)
(* process_text_input and process_uploaded_file.                           *)
(***************************************************************************)
Texts == {<<>>, <<" ">>, <<"t", "x", "t">>}

\* an uploaded file: its bytes as the text they decode to, or not UTF-8
FileContents ==
  {[utf8 |-> TRUE, text |-> t] : t \in Texts} \cup {[utf8 |-> FALSE, text |-> <<"?">>]}

Started(entry, save_at_front) ==
  [Idle EXCEPT !.entry = entry, !.save_at_front = save_at_front,
               !.store_at_call = store,
               !.after = {q \in Reqs : Ended(call[q])}]

\* process_text_input up to the first await: empty text is a ValueError
CallProcessText(r) ==
  /\ call[r].pc = "idle"
  /\ \E text_data \in Texts, save_at_front \in BOOLEAN :
       call' = [call EXCEPT ![r] =
                  IF IsBlank(text_data)
                    THEN [Started("text", save_at_front) EXCEPT
                            !.pc = "raised", !.exc = "ValueError", !.text = text_data]
                    ELSE [Started("text", save_at_front) EXCEPT
                            !.pc = "sign", !.text = text_data]]
  /\ UNCHANGED store

\* the result for an empty file
EmptyFileResult ==
  [status |-> "error", message |-> "File is empty.", added_count |-> 0,
   processed_count |-> 0,
   errors |-> <<[item |-> 0 - 1, desc |-> <<>>, reason |-> "File is empty."]>>,
   processed_expenses |-> <<>>]

\* process_uploaded_file up to the decoded text
CallProcessFile(r) ==
  /\ call[r].pc = "idle"
  /\ \E content \in FileContents, save_at_front \in BOOLEAN :
       call' = [call EXCEPT ![r] =
                  IF Len(content.text) = 0
                    THEN [Started("file", save_at_front) EXCEPT
                            !.pc = "done", !.result = EmptyFileResult]
                  ELSE IF ~content.utf8
                    THEN [Started("file", save_at_front) EXCEPT
                            !.pc = "raised", !.exc = "ValueError"]
                  ELSE [Started("file", save_at_front) EXCEPT
                          !.pc = "sign", !.text = content.text]]
  /\ UNCHANGED store

\* invert_signs_needed = await determine_sign_convention(text)
DetermineSign(r) ==
  /\ call[r].pc = "sign"
  /\ \E run \in SignRuns :
       LET got == determine_sign_convention(call[r].text, run)
           c == [call[r] EXCEPT
                   !.sign_calls =
                      call[r].sign_calls + (IF AsksAgent(call[r].text) THEN 1 ELSE 0),
                   !.sign_run = IF AsksAgent(call[r].text) THEN run ELSE NoRun]
       IN  call' = [call EXCEPT ![r] =
                      IF got.raised THEN Raise(c, "Exception")
                      ELSE [c EXCEPT !.invert_signs = got.value, !.pc = "extract"]]
  /\ UNCHANGED store

\* the result when nothing was extracted, reported as a failure
NothingExtractedAsError(entry) ==
  [status |-> "error",
   message |-> IF entry = "file" THEN "No actionable data found in file."
               ELSE "No actionable data found in text.",
   added_count |-> 0, processed_count |-> 0,
   errors |-> <<[item |-> 0 - 1, desc |-> <<>>, reason |-> "No actionable data found"]>>,
   processed_expenses |-> <<>>]

\* the result when nothing was extracted
NothingExtractedResult(entry) ==
  [status |-> "success",
   message |-> IF entry = "file" THEN "No actionable data found in file."
               ELSE "No actionable data found in text.",
   added_count |-> 0, processed_count |-> 0, errors |-> <<>>,
   processed_expenses |-> <<>>]

\* extracted_data = await process_text_with_agent(text), then either the
\* early return or the call of add_multiple_expenses_to_db
Extract(r) ==
  /\ call[r].pc = "extract"
  /\ \E run \in ExtractRuns :
       LET got == process_text_with_agent(call[r].text, run)
           c == [call[r] EXCEPT
                   !.extract_calls =
                      call[r].extract_calls + (IF AsksAgent(call[r].text) THEN 1 ELSE 0),
                   !.extract_run = IF AsksAgent(call[r].text) THEN run ELSE NoRun]
       IN  call' = [call EXCEPT ![r] =
                      IF got.raised THEN Raise(c, "ConnectionError")
                      ELSE IF got.list = <<>>
                        THEN [c EXCEPT !.pc = "done",
                                       !.result = NothingExtractedResult(c.entry)]
                      ELSE EnterAdd(c, got.list, c.invert_signs, c.save_at_front)]
  /\ UNCHANGED store

Pipeline(r) ==
  \/ CallProcessText(r)
  \/ CallProcessFile(r)
  \/ DetermineSign(r)
  \/ Extract(r)

(***************************************************************************)
(* The routes upload_expense_file and process_expense_text.                *)
(***************************************************************************)
\* status_code as the routes compute it from the service's result
StatusCode(result) ==
  IF \/ result.status = "error"
     \/ result.status = "partial_success" /\ result.added_count = 0
    THEN 400
  ELSE IF result.status = "partial_success" THEN 207
  ELSE 200

\* `except Exception` of the route: upload_expense_file answers 500,
\* process_expense_text raises ConnectionError, which the server answers
\* with 500
Unexpected(entry) ==
  [http |-> 500,
   route_exc |-> IF entry \in {"file", "upload_expense_file"}
                   THEN "HTTPException" ELSE "ConnectionError"]

\* what the route answers once its service call has ended as c.  An
\* HTTPException raised inside the try block for a status_code >= 400 is
\* neither a ValueError nor a ConnectionError: `except Exception` gets it.
RouteResponse(entry, c) ==
  IF c.pc = "done"
    THEN IF StatusCode(c.result) >= 400
           THEN Unexpected(entry)
           ELSE [http |-> StatusCode(c.result), route_exc |-> "none"]
  ELSE IF c.exc = "ValueError" THEN [http |-> 400, route_exc |-> "HTTPException"]
  ELSE IF c.exc = "ConnectionError" THEN [http |-> 503, route_exc |-> "HTTPException"]
  ELSE Unexpected(entry)

\* the route's handling of the outcome that its service call hands over
RouteMap(r) ==
  /\ call[r].entry \in {"text", "file"}
  /\ Ended(call[r])
  /\ call[r].http = 0
  /\ LET got == RouteResponse(call[r].entry, call[r])
     IN  call' = [call EXCEPT ![r].http = got.http, ![r].route_exc = got.route_exc]
  /\ UNCHANGED store

\* a request to one of the two routes: the file type or the text is
\* checked, then the service is called with (collection, file) or
\* (collection, text) only; save_at_front has no default, the call raises
\* TypeError and the service's body never runs
RouteCall(r) ==
  /\ call[r].pc = "idle"
  /\ \E route \in {"upload_expense_file", "process_expense_text"},
        text_input \in Texts, type_ok \in BOOLEAN :
       LET rejected == IF route = "upload_expense_file" THEN ~type_ok
                       ELSE IsBlank(text_input)
           c == [Idle EXCEPT !.entry = route, !.pc = "responded",
                             !.text = text_input, !.store_at_call = store]
           got == RouteResponse(route, [c EXCEPT !.exc = "TypeError"])
       IN  call' = [call EXCEPT ![r] =
                      IF rejected
                        THEN [c EXCEPT !.http = 400, !.route_exc = "HTTPException"]
                        ELSE [c EXCEPT !.exc = "TypeError", !.http = got.http,
                                       !.route_exc = got.route_exc]]
  /\ UNCHANGED store

Routes(r) == RouteCall(r) \/ RouteMap(r)

(***************************************************************************)
(* Spec: one request, through any entry point, on a collection that        *)
(* earlier ingestions may have filled.                                     *)
(* SpecTwo: two requests calling add_multiple_expenses_to_db on an empty   *)
(* collection, their steps interleaved at the awaits.                      *)
(***************************************************************************)
Init ==
  /\ store \in InitStores
  /\ call = [r \in Reqs |-> Idle]

Next ==
  \/ CallAddMultiple("r1", Batches)
  \/ Pipeline("r1")
  \/ AddMultiple("r1")
  \/ Routes("r1")

Spec == Init /\ [][Next]_vars
InitTwo ==
  /\ store = <<>>
  /\ call = [r \in Reqs |-> Idle]

NextTwo == \E r \in Reqs : CallAddMultiple(r, BatchesTwo) \/ AddMultiple(r)

SpecTwo == InitTwo /\ [][NextTwo]_vars
(***************************************************************************)
(* Claims.                                                                 *)
(***************************************************************************)
\* a call of add_multiple_expenses_to_db that returned the batch dictionary
Returned(c) == c.pc = "done" /\ "skipped_count" \in DOMAIN c.result /\ c.expenses_data # <<>>

\* neither find_one nor insert_many failed during the call
StoreWorked(c) == c.find_failed = 0 /\ ~c.insert_failed

\* the documents of st equal to the model but for the identity
Copies(st, model) == {i \in 1..Len(st) : st[i] = DbDoc(model, st[i]._id)}

\* C1: Idempotence of ingestion. When a call with persistence active has
\* accepted and stored a single candidate, a second call made after it with
\* the same candidate and the same invert_signs reports skipped_count = 1
\* and added_count = 0, and the collection holds exactly one copy of the
\* record.
C1_IdempotentIngestion ==
  \A a \in Reqs : \A b \in Reqs \ {a} :
    ( /\ Returned(call[a]) /\ Returned(call[b])
      /\ a \in call[b].after
      /\ ~call[a].save_at_front /\ ~call[b].save_at_front
      /\ Len(call[a].expenses_data) = 1
      /\ call[b].expenses_data = call[a].expenses_data
      /\ call[b].invert_signs = call[a].invert_signs
      /\ call[a].result.processed_count = 1
      /\ call[a].result.added_count = 1
      /\ StoreWorked(call[a]) /\ StoreWorked(call[b]) )
    => /\ call[b].result.skipped_count = 1
       /\ call[b].result.added_count = 0
       /\ Cardinality(Copies(store, call[a].valid_expense_models[1])) = 1

\* C2: Intra-batch duplicates are first-wins. A batch of two candidates with
\* identical date, description and value, processed with persistence active
\* on a collection holding no such record, has only the first accepted and
\* stored and the second reported as a skipped duplicate.
C2_IntraBatchFirstWins ==
  \A r \in Reqs :
    ( /\ Returned(call[r])
      /\ ~call[r].save_at_front
      /\ Len(call[r].expenses_data) = 2
      /\ call[r].expenses_data[1] = call[r].expenses_data[2]
      /\ call[r].store_at_call = <<>>
      /\ StoreWorked(call[r])
      /\ call[r].accepted_items # <<>> )
    => /\ call[r].result.processed_count = 1
       /\ call[r].result.skipped_count = 1
       /\ call[r].result.added_count = 1
       /\ Len(store) = 1

\* the direction tag agrees with the sign of the value
TagAgrees(rec) ==
  /\ rec.in_out \in {TagIn, TagOut}
  /\ rec.in_out = TagIn <=> GeZero(rec.value)
  /\ rec.in_out = TagOut <=> LtZero(rec.value)

\* the value and direction tag a record carries
ValueAndTag(rec) == [value |-> rec.value, in_out |-> rec.in_out]

\* the accepted records of a call: its models, the entries of
\* processed_expenses it returned, and the documents stored for it
AcceptedRecords(c) ==
  {ValueAndTag(c.valid_expense_models[i]) : i \in 1..Len(c.valid_expense_models)}
  \cup (IF c.pc = "done" /\ "processed_expenses" \in DOMAIN c.result
          THEN {ValueAndTag(c.result.processed_expenses[i]) :
                  i \in 1..Len(c.result.processed_expenses)}
          ELSE {})
  \cup {ValueAndTag(store[i]) :
          i \in {j \in 1..Len(store) :
                   \E k \in 1..Len(c.written) : c.written[k] = store[j]._id}}

\* C3 (as claimed): for either value of invert_signs every accepted record
\* has in_out = 'in' exactly when its final value is >= 0 and 'out' exactly
\* when it is < 0.
C3_TagFollowsFinalSign ==
  \A r \in Reqs : \A rec \in AcceptedRecords(call[r]) : TagAgrees(rec)

\* the candidate carries one of the two direction tags
HasValidTag(cand) ==
  "in_out" \in DOMAIN cand /\ cand.in_out \in {PyStr(TagIn), PyStr(TagOut)}

\* C3 (amended): an accepted record has in_out = 'in' if its final value
\* is >= 0 and 'out' otherwise, whenever invert_signs is set or the
\* candidate carried no valid tag; with invert_signs unset a candidate's
\* valid tag is kept whatever the sign.  The entries of processed_expenses
\* and the stored documents carry the value and tag of the accepted model.
C3_TagFollowsFinalSignAmended ==
  \A r \in Reqs :
    LET c == call[r]
    IN  /\ \A i \in 1..Len(c.valid_expense_models) :
             LET m == c.valid_expense_models[i]
                 cand == c.expenses_data[c.accepted_items[i] + 1]
             IN  /\ m.in_out \in {TagIn, TagOut}
                 /\ (c.invert_signs \/ ~HasValidTag(cand))
                      => (m.in_out = TagIn <=> GeZero(m.value))
                 /\ (~c.invert_signs /\ HasValidTag(cand))
                      => m.in_out = cand.in_out.s
        /\ c.pc = "done" =>
             \A rec \in AcceptedRecords(c) :
               \E i \in 1..Len(c.valid_expense_models) :
                 rec = ValueAndTag(c.valid_expense_models[i])

\* an inverted batch returned and stored a record whose tag was re-derived
\* away from the valid tag its candidate carried
C3_Witness ==
  \E r \in Reqs :
    /\ Returned(call[r]) /\ call[r].invert_signs /\ call[r].written # <<>>
    /\ \E i \in 1..Len(call[r].valid_expense_models) :
         LET cand == call[r].expenses_data[call[r].accepted_items[i] + 1]
         IN  /\ HasValidTag(cand)
             /\ call[r].valid_expense_models[i].in_out # cand.in_out.s

\* a string in exact YYYY-MM-DD form
ExactIso(s) ==
  /\ Len(s) = 10
  /\ s[5] = "-" /\ s[8] = "-"
  /\ \A i \in {1, 2, 3, 4, 6, 7, 9, 10} : IsDigit(s[i])

\* the date is missing, of a non-date type, or a string not in exact form
BadDateField(cand) ==
  LET v == Get(cand, "date")
  IN  \/ v.t \notin {"str", "date"}
      \/ v.t = "str" /\ ~ExactIso(v.s)

\* the value is absent or non-numeric
BadValueField(cand) == ~ToFloat(Get(cand, "value")).ok

\* the entries of errors reported for the candidate at a position
ErrorsOf(c, item_index) ==
  {k \in 1..Len(c.result.errors) : c.result.errors[k].item = item_index}

\* the candidate at a position was accepted
AcceptedAt(c, item_index) ==
  \E k \in 1..Len(c.accepted_items) : c.accepted_items[k] = item_index

\* C4: Field-validation rejection. In every outcome of a non-empty batch,
\* each candidate whose date is missing, of a non-date type or a string not
\* in exact YYYY-MM-DD form, and each candidate whose value is absent or
\* non-numeric, contributes exactly one entry to errors and is not among
\* the accepted records.
C4_FieldValidationRejection ==
  \A r \in Reqs :
    Returned(call[r]) =>
      \A i \in 1..Len(call[r].expenses_data) :
        (BadDateField(call[r].expenses_data[i]) \/ BadValueField(call[r].expenses_data[i]))
          => /\ Cardinality(ErrorsOf(call[r], i - 1)) = 1
             /\ ~AcceptedAt(call[r], i - 1)

\* a candidate with an exact date string, a description string and a number
WellFormed(cand) ==
  /\ ~BadDateField(cand) /\ ~BadValueField(cand)
  /\ Get(cand, "description").t = "str"

\* C5: Reject-and-continue. A call on a non-empty batch never ends by
\* raising, every candidate of the batch is accounted for as accepted,
\* skipped or rejected, and a batch of one valid and one invalid-date
\* candidate, with persistence active, an empty working store, yields
\* added_count = 1, processed_count = 1, exactly one error and status
\* 'partial_success'.
C5_RejectAndContinue ==
  \A r \in Reqs :
    LET c == call[r]
    IN  (Ended(c) /\ c.expenses_data # <<>>) =>
          /\ c.pc = "done"
          /\ \A i \in 1..Len(c.expenses_data) :
               \/ AcceptedAt(c, i - 1)
               \/ ErrorsOf(c, i - 1) # {}
               \/ c.result.skipped_count > 0
          /\ Len(c.valid_expense_models) + c.result.skipped_count
               + Cardinality({k \in 1..Len(c.result.errors) : c.result.errors[k].item >= 0})
               = Len(c.expenses_data)
          /\ ( /\ Len(c.expenses_data) = 2
               /\ \E i \in 1..2 : /\ WellFormed(c.expenses_data[i])
                                  /\ Get(c.expenses_data[3 - i], "date") = PyStr(BadDate)
               /\ ~c.save_at_front /\ c.store_at_call = <<>> /\ StoreWorked(c) )
             => /\ c.result.added_count = 1
                /\ c.result.processed_count = 1
                /\ Len(c.result.errors) = 1
                /\ c.result.status = "partial_success"

\* the status the classification rule gives to an outcome
ClassifiedStatus(res, save_at_front) ==
  IF res.processed_count = 0 /\ res.errors = <<>> THEN "no_data"
  ELSE IF res.errors = <<>> /\ (res.added_count > 0 \/ save_at_front) THEN "success"
  ELSE IF res.errors # <<>>
          /\ (res.added_count > 0 \/ (save_at_front /\ res.processed_count > 0))
    THEN "partial_success"
  ELSE "error"

\* C6: Batch status classification. For every non-empty batch the status
\* returned is 'no_data', 'success', 'partial_success' or 'error' as the
\* rule classifies the outcome, and with status 'error' errors is non-empty
\* and nothing was persisted.
C6_StatusClassification ==
  \A r \in Reqs :
    Returned(call[r]) =>
      /\ call[r].result.status = ClassifiedStatus(call[r].result, call[r].save_at_front)
      /\ call[r].result.status = "error"
           => call[r].result.errors # <<>> /\ call[r].written = <<>>

\* C7: No-persistence mode leaves the store untouched. A call running
\* with save_at_front = true makes no find_one and no insert_many call and
\* writes nothing, the collection stays as it was when the call started,
\* and its outcome has added_count = 0, no inserted_ids and no skipped
\* record, while every accepted record is returned in processed_expenses
\* and counted in processed_count.
C7_NoPersistenceUntouched ==
  \A r \in Reqs :
    LET c == call[r]
    IN  (c.save_at_front /\ c.expenses_data # <<>>) =>
          /\ c.find_calls = 0 /\ c.insert_calls = 0
          /\ c.written = <<>>
          /\ store = c.store_at_call
          /\ Returned(c) =>
               /\ c.result.added_count = 0
               /\ c.result.inserted_ids = <<>>
               /\ c.result.skipped_count = 0
               /\ c.result.processed_count = Len(c.accepted_items)
               /\ Len(c.result.processed_expenses) = Len(c.accepted_items)
               /\ \A i \in 1..Len(c.accepted_items) :
                    c.result.processed_expenses[i] = JsonDump(c.valid_expense_models[i])
               /\ Len(c.accepted_items) + Len(c.result.errors) = Len(c.expenses_data)

\* a call without persistence returned a record of which the collection
\* already holds a copy
C7_Witness ==
  \E r \in Reqs :
    /\ Returned(call[r]) /\ call[r].save_at_front
    /\ call[r].result.processed_count > 0
    /\ Copies(store, call[r].valid_expense_models[1]) # {}

\* C8 (as claimed): when insert_many stores some of the accepted records
\* and rejects the rest, the outcome reports added_count equal to the number
\* of records written and inserted_ids equal to their identities.
C8_PartialInsertDetected ==
  \A r \in Reqs :
    ( /\ Returned(call[r])
      /\ call[r].insert_calls = 1
      /\ call[r].written # <<>>
      /\ Len(call[r].written) < Len(call[r].valid_expense_models) )
    => /\ call[r].result.added_count = Len(call[r].written)
       /\ call[r].result.inserted_ids = call[r].written

\* C9: Total bulk-insert failure. A batch makes at most one insert_many
\* call; when that call raises, the function still returns, with exactly
\* one error entry for the failure, added_count = 0 and no inserted_ids.
C9_TotalInsertFailure ==
  \A r \in Reqs :
    LET c == call[r]
    IN  /\ c.insert_calls <= 1
        /\ c.insert_failed =>
             /\ c.insert_calls = 1
             /\ c.pc = "done"
             /\ c.result.added_count = 0
             /\ c.result.inserted_ids = <<>>
             /\ Cardinality({k \in 1..Len(c.result.errors) :
                               c.result.errors[k] = BulkError}) = 1
             /\ Cardinality(ErrorsOf(c, BulkError.item)) = 1

\* insert_many raised for a batch with two accepted records, nothing written
C9_Witness ==
  \E r \in Reqs :
    /\ call[r].insert_failed
    /\ Len(call[r].valid_expense_models) = 2
    /\ call[r].written = <<>>
    /\ call[r].pc = "done"

\* the sign step of a pipeline call got no well-formed answer
SignInferenceFailed(c) ==
  \/ IsBlank(c.text)
  \/ c.sign_run \in {RunRaises, RunMalformed}

\* C10: Sign inference fails safe. The sign step of process_text_input and
\* process_uploaded_file always hands over to extraction, never raising;
\* when the text is blank, the agent call raised or its output was not a
\* well-formed result, the call goes on with invert_signs = false through
\* extraction and reconciliation.
C10_SignInferenceFailsSafe ==
  /\ [](\A r \in Reqs :
          ( /\ call[r].entry \in {"text", "file"}
            /\ call[r].pc \in {"extract", "add", "done"}
            /\ SignInferenceFailed(call[r]) )
          => ~call[r].invert_signs)
  /\ [][\A r \in Reqs :
          call[r].pc = "sign" =>
            /\ call'[r].pc \in {"sign", "extract"}
            /\ call'[r].exc = "none"]_vars

\* a pipeline call whose sign agent raised went on to store a record as is
C10_Witness ==
  \E r \in Reqs :
    /\ call[r].entry \in {"text", "file"}
    /\ Returned(call[r])
    /\ call[r].sign_run = RunRaises
    /\ ~call[r].invert_signs
    /\ call[r].written # <<>>

\* the call came in through process_text_input or process_uploaded_file
ViaPipeline(c) == c.entry \in {"text", "file"}

\* the extraction agent raised or answered with something else than the
\* expected transaction list
ExtractionFailed(c) == c.extract_run \in {RunRaises, RunMalformed}

\* C11: Extraction failures abort the batch. When the extraction agent
\* raises or answers with a malformed response, the entry point ends by
\* raising ConnectionError: reconciliation never starts, the collection is
\* unchanged and no outcome is returned.
C11_ExtractionFailureAborts ==
  \A r \in Reqs :
    LET c == call[r]
    IN  (ViaPipeline(c) /\ ExtractionFailed(c)) =>
          /\ c.pc = "raised" /\ c.exc = "ConnectionError"
          /\ c.result = NoResult
          /\ c.expenses_data = <<>>
          /\ c.find_calls = 0 /\ c.insert_calls = 0
          /\ store = c.store_at_call

\* C12: The extraction adapter rejects empty input. A call of
\* process_text_with_agent with empty or whitespace-only text ends with an
\* error: the entry point that made the call never goes on with a result
\* of it.
C12_ExtractionRejectsBlankText ==
  [][\A r \in Reqs :
       (call[r].pc = "extract" /\ IsBlank(call[r].text) /\ call'[r] # call[r])
         => /\ process_text_with_agent(call[r].text, RunMalformed).raised
            /\ call'[r].pc = "raised"]_vars

\* the caller got an error: an exception, or an outcome with status 'error'
RejectedAsError(c) ==
  \/ c.pc = "raised"
  \/ c.pc = "done" /\ c.result.status = "error"

\* C13: Empty input is rejected before extraction. When the text of
\* process_text_input or the decoded content of the file of
\* process_uploaded_file is empty or whitespace-only, neither agent is
\* invoked, the collection is untouched, and the call ends with an error,
\* not with an outcome of non-error status.
C13_EmptyInputRejected ==
  \A r \in Reqs :
    LET c == call[r]
    IN  (ViaPipeline(c) /\ IsBlank(c.text)) =>
          /\ c.sign_calls = 0 /\ c.extract_calls = 0
          /\ c.find_calls = 0 /\ c.insert_calls = 0
          /\ store = c.store_at_call
          /\ Ended(c) => RejectedAsError(c)

\* the extraction agent of a pipeline call answered with an empty
\* transaction list
ExtractedNothing(c) ==
  ViaPipeline(c) /\ c.extract_run = RunList(<<>>)

\* C14: Empty extraction is not an error. When the extraction returns an
\* empty list, process_text_input and process_uploaded_file return an
\* outcome of status 'success' or 'no_data' with added_count = 0 and no
\* errors, and so does add_multiple_expenses_to_db called with an empty
\* list; no find_one or insert_many call is made and the collection is
\* unchanged.
C14_EmptyExtractionNotAnError ==
  \A r \in Reqs :
    LET c == call[r]
    IN  (ExtractedNothing(c) \/ (c.entry = "direct" /\ c.expenses_data = <<>>)) =>
          /\ c.find_calls = 0 /\ c.insert_calls = 0
          /\ store = c.store_at_call
          /\ c.pc \in {"add", "done"}
          /\ c.pc = "done" =>
               /\ c.result.status \in {"success", "no_data"}
               /\ c.result.added_count = 0
               /\ c.result.errors = <<>>

\* a pipeline call whose agent extracted an empty transaction list has
\* returned, the collection holding a record
C14_Witness ==
  \E r \in Reqs :
    /\ ViaPipeline(call[r])
    /\ call[r].extract_run = RunList(<<>>)
    /\ call[r].pc = "done"
    /\ store # <<>>

\* the candidate an accepted model of a call was built from
CandidateOf(c, i) == c.expenses_data[c.accepted_items[i] + 1]

\* float() of the candidate's value
ParsedValue(cand) == ToFloat(Get(cand, "value")).val

\* C15: Sign inversion is uniform over the batch. With invert_signs = true
\* every accepted record of the call has the negation of its candidate's
\* parsed value, and in_out 'in' exactly when that negated value is >= 0;
\* with invert_signs = false every accepted record has its candidate's
\* parsed value.  The returned and stored records carry the value and tag
\* of the accepted models, so no batch mixes the two.
C15_UniformInversion ==
  \A r \in Reqs :
    LET c == call[r]
    IN  /\ \A i \in 1..Len(c.valid_expense_models) :
             LET m == c.valid_expense_models[i]
                 v == ParsedValue(CandidateOf(c, i))
             IN  IF c.invert_signs
                   THEN /\ m.value = Negate(v)
                        /\ m.in_out = (IF GeZero(Negate(v)) THEN TagIn ELSE TagOut)
                   ELSE m.value = v
        /\ c.pc = "done" =>
             \A rec \in AcceptedRecords(c) :
               \E i \in 1..Len(c.valid_expense_models) :
                 rec = ValueAndTag(c.valid_expense_models[i])

\* an inverted batch of two accepted candidates was stored, one of them
\* given as 5 / 'in' and stored as -5 / 'out'
C15_Witness ==
  \E r \in Reqs :
    /\ Returned(call[r]) /\ call[r].invert_signs
    /\ Len(call[r].valid_expense_models) = 2
    /\ Len(call[r].written) = 2
    /\ \E i \in 1..2 :
         /\ Get(CandidateOf(call[r], i), "value") = PyNum(5)
         /\ Get(CandidateOf(call[r], i), "in_out") = PyStr(TagIn)
         /\ ValueAndTag(call[r].valid_expense_models[i])
              = [value |-> Fin(0 - 5), in_out |-> TagOut]

\* the fields of the outcome structure
OutcomeFields ==
  {"status", "added_count", "processed_count", "skipped_count", "errors",
   "duplicates_info", "inserted_ids", "processed_expenses"}

\* C16: Uniform outcome structure. Every result returned by
\* process_uploaded_file, process_text_input or add_multiple_expenses_to_db,
\* on every return path, has all of the fields status, added_count,
\* processed_count, skipped_count, errors, duplicates_info, inserted_ids
\* and processed_expenses.
C16_UniformOutcome ==
  \A r \in Reqs :
    call[r].pc = "done" => OutcomeFields \subseteq DOMAIN call[r].result

\* at least one record of the outcome was accepted: persisted, or accepted
\* while persistence was skipped
SomeAccepted(c) ==
  IF c.save_at_front THEN c.result.processed_count > 0
  ELSE c.result.added_count > 0

\* the transport status the mapping rule gives to an outcome
MappedStatus(c) ==
  IF c.result.errors # <<>> /\ ~SomeAccepted(c) THEN 400
  ELSE IF c.result.errors # <<>> THEN 207
  ELSE 200

\* C17: Transport mapping of outcomes. For every outcome a route is handed
\* by its service call, in both persistence modes, the route answers 400
\* when the outcome has errors and nothing accepted, 207 when it has errors
\* and at least one accepted record, and 200 otherwise.
C17_TransportMapping ==
  \A r \in Reqs :
    (ViaPipeline(call[r]) /\ call[r].pc = "done" /\ call[r].http # 0)
      => call[r].http = MappedStatus(call[r])

\* add_multiple_expenses_to_db was entered by the call
EnteredAdd(c) == c.entry = "direct" \/ c.expenses_data # <<>>

\* C18: add_multiple_expenses_to_db never raises. For every batch of
\* candidate mappings and every behaviour of find_one and insert_many, a
\* call that entered the function ends by returning an outcome, and each
\* failed store call has left an entry in errors.
C18_NeverRaises ==
  \A r \in Reqs :
    LET c == call[r]
    IN  (EnteredAdd(c) /\ Ended(c)) =>
          /\ c.pc = "done"
          /\ c.result # NoResult
          /\ Len(c.result.errors) >= c.find_failed + (IF c.insert_failed THEN 1 ELSE 0)

\* the candidate, with its date parsed and its description and value as
\* given, matches a document of the collection on date, description and
\* value
MatchesStored(cand, st) ==
  LET d == ParseDate(Get(cand, "date"))
  IN  /\ d.ok
      /\ Get(cand, "description").t = "str"
      /\ Get(cand, "value").t = "num"
      /\ \E k \in 1..Len(st) :
           /\ st[k].date = [y |-> d.y, m |-> d.m, d |-> d.d]
           /\ st[k].description = Get(cand, "description").s
           /\ st[k].value = Fin(Get(cand, "value").n)

\* the positions of the batch whose candidate matches a stored record
DuplicatesOf(c) ==
  {i \in 1..Len(c.expenses_data) : MatchesStored(c.expenses_data[i], c.store_at_call)}

\* C19: Duplicates are a distinct outcome. In every outcome skipped_count
\* equals the length of duplicates_info.  With persistence active and a
\* working store, each candidate matching a stored record on date,
\* description and value is counted in skipped_count and is neither
\* reported in errors nor accepted nor inserted, no other candidate is
\* skipped, and a batch consisting only of such candidates ends with no
\* errors and a non-error status.
C19_DuplicatesDistinct ==
  \A r \in Reqs :
    LET c == call[r]
    IN  Returned(c) =>
          /\ c.result.skipped_count = Len(c.result.duplicates_info)
          /\ (~c.save_at_front /\ StoreWorked(c)) =>
               /\ c.result.skipped_count = Cardinality(DuplicatesOf(c))
               /\ \A i \in DuplicatesOf(c) :
                    /\ ErrorsOf(c, i - 1) = {}
                    /\ ~AcceptedAt(c, i - 1)
               /\ Len(c.written) = Len(c.expenses_data) - Cardinality(DuplicatesOf(c))
                                     - Len(c.result.errors)
               /\ DuplicatesOf(c) = 1..Len(c.expenses_data) =>
                    /\ c.result.errors = <<>>
                    /\ c.written = <<>>
                    /\ c.result.status \in {"success", "no_data"}

\* a batch of two candidates, both already stored, was skipped as a whole
C19_Witness ==
  \E r \in Reqs :
    /\ Returned(call[r]) /\ ~call[r].save_at_front
    /\ Len(call[r].expenses_data) = 2
    /\ DuplicatesOf(call[r]) = {1, 2}
    /\ call[r].result.skipped_count = 2
    /\ call[r].result.status = "no_data"

\* the direction tag the candidate has before any inversion: its own tag
\* when valid, else 'in' for a parsed value >= 0 and 'out' for one < 0
TagBeforeInversion(cand) ==
  IF HasValidTag(cand) THEN cand.in_out.s
  ELSE IF GeZero(ParsedValue(cand)) THEN TagIn ELSE TagOut

\* C20: Direction derivation. For every accepted candidate the tag resolved
\* before the inversion step is the candidate's own tag when that is 'in'
\* or 'out', and otherwise 'in' for a parsed value >= 0 and 'out' for a
\* parsed value < 0; without inversion the accepted record carries that
\* tag, with inversion the tag re-derived from the negated value.
C20_DirectionDerivation ==
  \A r \in Reqs :
    LET c == call[r]
    IN  \A i \in 1..Len(c.valid_expense_models) :
          LET cand == CandidateOf(c, i)
              m == c.valid_expense_models[i]
          IN  /\ ResolveTag(Put(cand, "value", PyFloat(ParsedValue(cand)))).in_out
                   = PyStr(TagBeforeInversion(cand))
              /\ ~c.invert_signs => m.in_out = TagBeforeInversion(cand)
              /\ c.invert_signs =>
                   m.in_out = (IF GeZero(Negate(ParsedValue(cand))) THEN TagIn ELSE TagOut)

\* a batch stored without inversion: a candidate tagged 'both' with value 0
\* got 'in', and a candidate tagged 'in' with value -5 kept 'in'
C20_Witness ==
  \E r \in Reqs :
    /\ Returned(call[r]) /\ ~call[r].invert_signs
    /\ Len(call[r].written) = 2
    /\ \E i, j \in 1..2 :
         /\ Get(CandidateOf(call[r], i), "in_out") = PyStr(Bogus)
         /\ call[r].valid_expense_models[i].in_out = TagIn
         /\ Get(CandidateOf(call[r], j), "value") = PyNum(0 - 5)
         /\ Get(CandidateOf(call[r], j), "in_out") = PyStr(TagIn)
         /\ call[r].valid_expense_models[j].in_out = TagIn

\* the candidate's value parses to NaN or to an infinity
NonFiniteValue(cand) ==
  /\ ToFloat(Get(cand, "value")).ok
  /\ ParsedValue(cand).k # "fin"

\* C21: Only finite values are accepted. In every outcome, a candidate
\* with a parsable date whose value parses to NaN or to an infinity has
\* one entry in errors and is neither accepted nor persisted, and no
\* accepted, returned or stored record has a non-finite value.
C21_OnlyFiniteValues ==
  \A r \in Reqs :
    LET c == call[r]
    IN  /\ \A i \in 1..Len(c.valid_expense_models) :
             c.valid_expense_models[i].value.k = "fin"
        /\ \A k \in 1..Len(store) : store[k].value.k = "fin"
        /\ Returned(c) =>
             \A i \in 1..Len(c.expenses_data) :
               NonFiniteValue(c.expenses_data[i]) =>
                 /\ Cardinality(ErrorsOf(c, i - 1)) = 1
                 /\ ~AcceptedAt(c, i - 1)

\* two calls with persistence active and signs kept, each carrying the
\* same single candidate, started on an empty collection or after one
\* another, have both returned, every store call having succeeded
SameCandidateTwice(a, b) ==
  /\ Returned(call[a]) /\ Returned(call[b])
  /\ ~call[a].save_at_front /\ ~call[b].save_at_front
  /\ ~call[a].invert_signs /\ ~call[b].invert_signs
  /\ Len(call[a].expenses_data) = 1
  /\ call[b].expenses_data = call[a].expenses_data
  /\ StoreWorked(call[a]) /\ StoreWorked(call[b])

\* neither call had ended when the other started
Overlapping(a, b) == a \notin call[b].after /\ b \notin call[a].after

\* C22: Documented duplicate race. Of two calls carrying the same new
\* candidate, one that starts after the other has returned finds the
\* record and skips it; when both duplicate checks found no match, both
\* calls insert the record (added_count = 1 each) and the collection holds
\* two identical records.  Each call either skips or adds the candidate.
C22_DuplicateRace ==
  \A a \in Reqs : \A b \in Reqs \ {a} :
    SameCandidateTwice(a, b) =>
      /\ call[a].result.skipped_count + call[a].result.added_count = 1
      /\ a \in call[b].after =>
           /\ call[b].result.skipped_count = 1
           /\ Len(store) = 1
      /\ (call[a].result.skipped_count = 0 /\ call[b].result.skipped_count = 0) =>
           /\ Overlapping(a, b)
           /\ call[a].result.added_count = 1 /\ call[b].result.added_count = 1
           /\ Len(store) = 2
           /\ \A k \in 1..2 : store[k] = DbDoc(call[a].valid_expense_models[1], k)

\* two overlapping calls both passed the duplicate check and both stored
\* the record: the collection holds it twice
C22_Witness ==
  \E a \in Reqs : \E b \in Reqs \ {a} :
    /\ SameCandidateTwice(a, b)
    /\ Overlapping(a, b)
    /\ call[a].find_calls = 1 /\ call[b].find_calls = 1
    /\ call[a].result.skipped_count = 0 /\ call[b].result.skipped_count = 0
    /\ Len(store) = 2
    /\ Cardinality(Copies(store, call[a].valid_expense_models[1])) = 2

\* a request to upload_expense_file or process_expense_text that passed the
\* route's own check of the file type or of the text, with input that is
\* not blank
ValidRouteRequest(c) ==
  /\ c.entry \in {"upload_expense_file", "process_expense_text"}
  /\ c.pc = "responded"
  /\ ~(c.http = 400 /\ c.exc = "none")
  /\ ~IsBlank(c.text)

\* C23: The persist selector reaches the pipeline on every HTTP ingestion
\* call. Every request handled by upload_expense_file or
\* process_expense_text with valid non-empty input invokes the service
\* entry point without an exception of the call itself, reaches extraction
\* and is answered from a batch outcome.
C23_SelectorReachesPipeline ==
  \A r \in Reqs :
    LET c == call[r]
    IN  ValidRouteRequest(c) =>
          /\ c.exc = "none"
          /\ c.extract_calls >= 1
          /\ c.result # NoResult
          /\ c.http \in {200, 207, 400}

\* the entries of errors that name a candidate of the batch
PerItemErrors(c) ==
  {k \in 1..Len(c.result.errors) : c.result.errors[k].item >= 0}

\* the positions of the batch with an entry in errors
RejectedItems(c) ==
  {i \in 0..(Len(c.expenses_data) - 1) : ErrorsOf(c, i) # {}}

\* the positions of the batch whose candidate was accepted
AcceptedItems(c) == {c.accepted_items[k] : k \in 1..Len(c.accepted_items)}

\* the accepted record that the loop makes of the candidate at a position
\* on the collection as the call found it
RecordOf(c, item_index) ==
  ProcessCandidate(item_index, c.expenses_data[item_index + 1], c.save_at_front,
                   c.invert_signs, c.store_at_call, FALSE)

\* C24: Complete accounting of candidates. Every outcome returned by
\* add_multiple_expenses_to_db for a batch of n candidates carries
\* processed_count, skipped_count, added_count, errors and
\* processed_expenses; each candidate is accepted, skipped as a duplicate
\* or rejected with one entry of errors, and never two of these, so
\* processed_count + skipped_count + the number of per-item entries of
\* errors = n; at most one further entry of errors exists; added_count <=
\* processed_count; processed_expenses lists the accepted records in the
\* order of their candidates.
C24_CompleteAccounting ==
  \A r \in Reqs :
    LET c == call[r]
        n == Len(c.expenses_data)
    IN  (EnteredAdd(c) /\ c.pc = "done") =>
          /\ {"processed_count", "skipped_count", "added_count", "errors",
              "processed_expenses"} \subseteq DOMAIN c.result
          /\ c.result.processed_count + c.result.skipped_count
               + Cardinality(PerItemErrors(c)) = n
          /\ AcceptedItems(c) \cap RejectedItems(c) = {}
          /\ \A i \in RejectedItems(c) : Cardinality(ErrorsOf(c, i)) = 1
          /\ Cardinality(AcceptedItems(c)) = c.result.processed_count
          /\ Len(c.result.errors) - Cardinality(PerItemErrors(c)) <= 1
          /\ c.result.added_count <= c.result.processed_count
          /\ Len(c.result.processed_expenses) = Len(c.accepted_items)
          /\ \A i \in 1..Len(c.accepted_items) :
               /\ i > 1 => c.accepted_items[i - 1] < c.accepted_items[i]
               /\ RecordOf(c, c.accepted_items[i]).kind = "accepted"
               /\ c.result.processed_expenses[i]
                    = JsonDump(RecordOf(c, c.accepted_items[i]).model)
====
